---- MODULE Spec2Model ----
(***************************************************************************)
(* AstroPsyche client: the useAstroPsyche hook (store, local storage and   *)
(* backend requests), the ThemedTimePicker keypad and the App wizard with  *)
(* its camera target.                                                      *)
(***************************************************************************)
EXTENDS Integers, Sequences, FiniteSets, TLC

VARIABLES
    \* ---- useAstroPsyche: store (useAppStore) -------------------------------
    user,            \* store.user : a User record or NULL
    error,           \* store.error : message or NoError
    currentReport,   \* store.currentReport
    \* ---- window.localStorage ----------------------------------------------
    lsUser,          \* key 'astropsyche_user'
    lsReports,       \* key 'astropsyche_reports'
    \* ---- running hook actions ---------------------------------------------
    pc,              \* per hook action: where its async body is suspended
    ctx,             \* per hook action: what its closure captured
    inflight,        \* per hook action: backend requests issued, not yet answered
    ret,             \* what the step just taken returned to the caller of a hook action
    nextId,          \* source of fresh ids (auth uuid, Date.now() + random)
    \* ---- history ------------------------------------------------------------
    fallbackIds,     \* ids of the users createUser persisted as a fallback
    sinceSignOut,    \* signOut completed and no hook action wrote a user since
    \* ---- ThemedTimePicker ---------------------------------------------------
    timeInput,       \* the keypad's entry buffer (a string, as a sequence of characters)
    value,           \* the value prop, held by the parent
    isOpen,          \* the keypad dialog is shown
    onChangeArg,     \* history: argument of the onChange call of the step just taken
    \* ---- App (the wizard) and ThreeBackground --------------------------------
    appStep,         \* App: index of the page shown
    formStep,        \* App: index of the BirthDataPage screen shown
    formData,        \* BirthDataPage: the form's fields
    loading,         \* BirthDataPage: 'Aligning the cosmos...' is shown
    submitTimers,    \* pending 3000 ms timers of handleSubmit
    ageTimer,        \* the 2500 ms timer of the age screen is pending
    answer,          \* PsychQAPage: the answer typed so far
    isRecording,     \* PsychQAPage: the microphone is on
    mountedPage,     \* index of the page mounted under AnimatePresence (shown or leaving)
    pageFormStep,    \* the formStep prop of the mounted BirthDataPage at its last render
    mountedScreen,   \* index of the form screen mounted under AnimatePresence
    overlap,         \* user events handled by a leaving page or screen in this exit animation
    event,           \* history: the timer callback that ran in the step just taken
    targetIndex,     \* ThreeBackground: threeObjects.current.currentTargetIndex
    \* ---- the age and the chart of one birth date -----------------------------
    birthDate,       \* the date of birth entered (year, month 0..11, day of the month)
    now,             \* new Date(): the day the page runs on
    shownAge,        \* what calculateAge returned for the age screen
    reportAge,       \* age_years / age_months of the astrology report
    chart            \* what calculateAstrologyChart returned

hookVars == <<user, error, currentReport, lsUser, lsReports, pc, ctx,
              inflight, ret, nextId, fallbackIds, sinceSignOut>>

keypadVars == <<timeInput, value, isOpen, onChangeArg>>

appVars == <<appStep, formStep, formData, loading, submitTimers, ageTimer, answer,
             isRecording, mountedPage, pageFormStep, mountedScreen, overlap, event,
             targetIndex>>

chartVars == <<birthDate, now, shownAge, reportAge, chart>>

vars == <<hookVars, keypadVars, appVars, chartVars>>

---------------------------------------------------------------------------
\* Bounds of the model

MaxUsers == 1        \* createUser calls (each draws a fresh id)
MaxConcurrent == 1   \* hook actions suspended on a request at the same time
MaxPendingSubmits == 2   \* handleSubmit timers pending at the same time
MaxEventsWhileLeaving == 1   \* clicks and key presses handled during one exit animation

---------------------------------------------------------------------------
\* Values

NULL == [kind |-> "null"]
CORRUPT == [kind |-> "corrupt"]
NoError == "none"
UNDEFINED == "undefined"

Actions == {"createUser", "updateUserProfile", "generateReport", "downloadPDF",
            "shareReport", "getUserReports", "signOut"}

Names == {"Ann"}
BirthTimes == {"12:00", UNDEFINED}
BirthDatas == [name : Names, birthTime : BirthTimes]
Updates == {[profile_completed |-> TRUE]}

MsgNoUser == "No user logged in"
MsgAnonDisabled == "Anonymous authentication is disabled. Please enable anonymous sign-ins"
MsgMigrations == "Database tables not found. Please apply the database migrations"

\* 'temp-' + Date.now() + '-' + random, and the uuid of an auth user
TempId(n) == <<"temp-", n>>
AuthId(n) == <<"uuid-", n>>

\* user.id.startsWith('temp-')
StartsWithTemp(id) == id[1] = "temp-"

\* The object literal createUser builds from the birth data
UserData(id, b) ==
    [id |-> id, full_name |-> b.name, birth_time |-> b.birthTime,
     profile_completed |-> FALSE]

\* { ...user, ...updates }
Spread(u, upd) ==
    [k \in (DOMAIN u) \cup (DOMAIN upd) |-> IF k \in DOMAIN upd THEN upd[k] ELSE u[k]]

\* JSON.stringify drops the keys whose value is undefined
OptionalKeys == {"birth_time"}
JsonStringify(u) ==
    [kind |-> "json",
     text |-> [k \in {j \in DOMAIN u : j \notin OptionalKeys \/ u[j] # UNDEFINED} |-> u[k]]]

\* JSON.parse throws on text that is not JSON
JsonParses(s) == s # CORRUPT
JsonParse(s) == s.text

\* The restore effect: runs after every render in which user changed
RestoreEffect(u, ls) ==
    IF ls # NULL /\ u = NULL
    THEN IF JsonParses(ls)
         THEN [user |-> JsonParse(ls), ls |-> ls]
         ELSE [user |-> NULL, ls |-> NULL]
    ELSE [user |-> u, ls |-> ls]

\* useAppStore.getState().reset()
ResetStore == [user |-> NULL, error |-> NoError, currentReport |-> NULL]

\* handleAsyncError(operation, errorMessage): before the operation runs, and when
\* it throws (the store's error is then the errorMessage of the call site)
HandleAsyncErrorBegin == [error |-> NoError]
HandleAsyncErrorCatch(message) == [error |-> message, result |-> NULL]

\* A request leaves for the backend / the awaited request has been answered
Issue(f, a) == [f EXCEPT ![a] = @ + 1]
Unsettled(f, a) == f
Settle(f, a) == [f EXCEPT ![a] = @ - 1]

Busy == {a \in Actions : pc[a] # "idle"}
CanStart(a) == pc[a] = "idle" /\ Cardinality(Busy) < MaxConcurrent

\* The promise of hook action a resolves to result (cause: the failure it absorbed)
Returned(a, result, cause) == [action |-> a, value |-> result, cause |-> cause]
NoReturn == Returned("none", NULL, "none")

FinishBecause(a, result, cause) ==
    /\ pc' = [pc EXCEPT ![a] = "idle"]
    /\ ctx' = [ctx EXCEPT ![a] = NULL]
    /\ ret' = Returned(a, result, cause)

Finish(a, result) == FinishBecause(a, result, "none")

Suspend(a, label, captured) ==
    /\ pc' = [pc EXCEPT ![a] = label]
    /\ ctx' = [ctx EXCEPT ![a] = captured]
    /\ ret' = NoReturn

---------------------------------------------------------------------------
\* Construction

StoredAtStart ==
    {NULL, CORRUPT, JsonStringify(UserData(TempId(0), [name |-> "Ann", birthTime |-> UNDEFINED]))}
ReportsAtStart == {NULL, [kind |-> "json", text |-> <<"report">>]}

HookInitWith(s, r) ==
        /\ user = RestoreEffect(NULL, s).user
        /\ lsUser = RestoreEffect(NULL, s).ls
        /\ lsReports = r
        /\ error = NoError
        /\ currentReport = NULL
        /\ pc = [a \in Actions |-> "idle"]
        /\ ctx = [a \in Actions |-> NULL]
        /\ inflight = [a \in Actions |-> 0]
        /\ ret = NoReturn
        /\ nextId = 1
        /\ fallbackIds = IF JsonParses(s) /\ s # NULL THEN {TempId(0)} ELSE {}
        /\ sinceSignOut = FALSE

HookInit == \E s \in StoredAtStart, r \in ReportsAtStart : HookInitWith(s, r)

\* The page is loaded again: memory is new, local storage and the backend stay
Mount ==
    /\ user' = RestoreEffect(NULL, lsUser).user
    /\ lsUser' = RestoreEffect(NULL, lsUser).ls
    /\ error' = NoError
    /\ currentReport' = NULL
    /\ pc' = [a \in Actions |-> "idle"]
    /\ ctx' = [a \in Actions |-> NULL]
    /\ inflight' = [a \in Actions |-> 0]
    /\ ret' = NoReturn
    /\ UNCHANGED <<lsReports, nextId, fallbackIds, sinceSignOut>>

---------------------------------------------------------------------------
\* createUser

CreateUserStart(b) ==
    /\ CanStart("createUser")
    /\ nextId <= MaxUsers
    /\ error' = HandleAsyncErrorBegin.error
    /\ Suspend("createUser", "signInAnonymously", [birthData |-> b])
    /\ inflight' = Issue(inflight, "createUser")
    /\ UNCHANGED <<user, currentReport, lsUser, lsReports, nextId,
                   fallbackIds, sinceSignOut>>

\* A createUser whose catch blocks hand the failure on to handleAsyncError
CreateUserRethrows(record, cause) ==
    /\ error' = HandleAsyncErrorCatch("Failed to create user account").error
    /\ FinishBecause("createUser", HandleAsyncErrorCatch("Failed to create user account").result,
                     cause)
    /\ inflight' = Settle(inflight, "createUser")
    /\ UNCHANGED <<user, currentReport, lsUser, lsReports, fallbackIds, sinceSignOut>>

\* Both catch blocks: persist the record, put it in the store, return it
CreateUserFallback(record, cause) ==
    /\ lsUser' = JsonStringify(record)
    /\ user' = record
    /\ FinishBecause("createUser", record, cause)
    /\ inflight' = Settle(inflight, "createUser")
    /\ fallbackIds' = fallbackIds \cup {record.id}
    /\ sinceSignOut' = FALSE
    /\ UNCHANGED <<error, currentReport, lsReports>>

AuthOutcomes == {"ok", "anonymous_provider_disabled", "auth_error", "auth_throws"}

CreateUserAuthResponse(outcome) ==
    /\ pc["createUser"] = "signInAnonymously"
    /\ nextId' = nextId + 1
    /\ IF outcome = "ok"
       THEN /\ Suspend("createUser", "users.insert",
                       [birthData |-> ctx["createUser"].birthData, userId |-> AuthId(nextId)])
            /\ inflight' = Issue(Settle(inflight, "createUser"), "createUser")
            /\ UNCHANGED <<user, error, currentReport, lsUser, lsReports, fallbackIds, sinceSignOut>>
       ELSE CreateUserFallback(UserData(TempId(nextId), ctx["createUser"].birthData), outcome)

InsertOutcomes == {"ok", "42P01", "insert_error", "insert_throws"}

CreateUserInsertResponse(outcome) ==
    /\ pc["createUser"] = "users.insert"
    /\ UNCHANGED nextId
    /\ IF outcome = "ok"
       THEN /\ Suspend("createUser", "astrology_reports.insert", ctx["createUser"])
            /\ inflight' = Issue(Settle(inflight, "createUser"), "createUser")
            /\ UNCHANGED <<user, error, currentReport, lsUser, lsReports, fallbackIds, sinceSignOut>>
       ELSE CreateUserFallback(
                UserData(ctx["createUser"].userId, ctx["createUser"].birthData), outcome)

AstroOutcomes == {"ok", "astro_error", "astro_throws"}

CreateUserAstroResponse(outcome) ==
    /\ pc["createUser"] = "astrology_reports.insert"
    /\ UNCHANGED nextId
    /\ LET row == UserData(ctx["createUser"].userId, ctx["createUser"].birthData) IN
       IF outcome = "ok"
       THEN /\ user' = row
            /\ Finish("createUser", row)
            /\ inflight' = Settle(inflight, "createUser")
            /\ sinceSignOut' = FALSE
            /\ UNCHANGED <<error, currentReport, lsUser, lsReports, fallbackIds>>
       ELSE CreateUserFallback(row, outcome)

---------------------------------------------------------------------------
\* updateUserProfile

\* An updateUserProfile that misses the early return and runs into handleAsyncError
UpdateUserProfileUnguarded(updates) ==
    /\ pc["updateUserProfile"] = "idle"
    /\ user = NULL
    /\ error' = HandleAsyncErrorCatch("Failed to update user profile").error
    /\ ret' = Returned("updateUserProfile", NULL, "none")
    /\ UNCHANGED <<user, currentReport, lsUser, lsReports, pc, ctx, inflight,
                   nextId, fallbackIds, sinceSignOut>>

UpdateUserProfileNoUser(updates) ==
    /\ pc["updateUserProfile"] = "idle"
    /\ user = NULL
    /\ error' = MsgNoUser
    /\ ret' = Returned("updateUserProfile", NULL, "none")
    /\ UNCHANGED <<user, currentReport, lsUser, lsReports, pc, ctx, inflight,
                   nextId, fallbackIds, sinceSignOut>>

UpdateUserProfileStart(updates) ==
    /\ CanStart("updateUserProfile")
    /\ user # NULL
    /\ error' = HandleAsyncErrorBegin.error
    /\ IF StartsWithTemp(user.id)
       THEN LET updatedUser == Spread(user, updates) IN
            /\ lsUser' = JsonStringify(updatedUser)
            /\ user' = updatedUser
            /\ Finish("updateUserProfile", updatedUser)
            /\ sinceSignOut' = FALSE
            /\ UNCHANGED inflight
       ELSE /\ Suspend("updateUserProfile", "users.update",
                       [user |-> user, updates |-> updates])
            /\ inflight' = Issue(inflight, "updateUserProfile")
            /\ UNCHANGED <<user, lsUser, sinceSignOut>>
    /\ UNCHANGED <<currentReport, lsReports, nextId, fallbackIds>>

UpdateOutcomes == {"ok", "update_error", "update_throws"}

UpdateUserProfileResponse(outcome) ==
    /\ pc["updateUserProfile"] = "users.update"
    /\ inflight' = Settle(inflight, "updateUserProfile")
    /\ IF outcome = "ok"
       THEN LET updatedUser == Spread(ctx["updateUserProfile"].user,
                                      ctx["updateUserProfile"].updates) IN
            /\ user' = updatedUser
            /\ Finish("updateUserProfile", updatedUser)
            /\ sinceSignOut' = FALSE
            /\ UNCHANGED error
       ELSE /\ error' = HandleAsyncErrorCatch("Failed to update user profile").error
            /\ Finish("updateUserProfile", HandleAsyncErrorCatch("Failed to update user profile").result)
            /\ UNCHANGED <<user, sinceSignOut>>
    /\ UNCHANGED <<currentReport, lsUser, lsReports, nextId, fallbackIds>>

---------------------------------------------------------------------------
\* generateReport (generateFinalReport, then updateUserProfile)

Report(uid) == [kind |-> "report", user_id |-> uid]

GenerateReportNoUser ==
    /\ pc["generateReport"] = "idle"
    /\ user = NULL
    /\ error' = MsgNoUser
    /\ ret' = Returned("generateReport", NULL, "none")
    /\ UNCHANGED <<user, currentReport, lsUser, lsReports, pc, ctx, inflight,
                   nextId, fallbackIds, sinceSignOut>>

GenerateReportStart ==
    /\ CanStart("generateReport")
    /\ user # NULL
    /\ error' = HandleAsyncErrorBegin.error
    /\ Suspend("generateReport", "astrology_reports.select", [user |-> user])
    /\ inflight' = Issue(inflight, "generateReport")
    /\ UNCHANGED <<user, currentReport, lsUser, lsReports, nextId, fallbackIds, sinceSignOut>>

\* handleAsyncError catches what the operation throws
GenerateReportThrows(message) ==
    /\ error' = HandleAsyncErrorCatch(message).error
    /\ Finish("generateReport", HandleAsyncErrorCatch(message).result)
    /\ inflight' = Settle(inflight, "generateReport")
    /\ UNCHANGED <<user, currentReport, lsUser, lsReports, nextId, fallbackIds, sinceSignOut>>

GenerateReportContinues(label) ==
    /\ Suspend("generateReport", label, ctx["generateReport"])
    /\ inflight' = Issue(Settle(inflight, "generateReport"), "generateReport")
    /\ UNCHANGED <<user, error, currentReport, lsUser, lsReports, nextId, fallbackIds, sinceSignOut>>

\* Backend: createUser inserted the astrology_reports row of every auth user
\* it did not fall back for
HasAstrologyRow(id) == ~StartsWithTemp(id) /\ id \notin fallbackIds

\* getAstrologyReport: the row, null (PGRST116) or an error
GenerateReportAstroResponse(outcome) ==
    /\ pc["generateReport"] = "astrology_reports.select"
    /\ outcome = "row" => HasAstrologyRow(ctx["generateReport"].user.id)
    /\ CASE outcome = "row" -> GenerateReportContinues("aiService")
         [] outcome = "none" -> GenerateReportThrows("Failed to generate personality report")
         [] OTHER -> GenerateReportThrows("Failed to generate personality report")

GenerateReportAiResponse(outcome) ==
    /\ pc["generateReport"] = "aiService"
    /\ IF outcome = "ok"
       THEN GenerateReportContinues("final_reports.insert")
       ELSE GenerateReportThrows("Failed to generate personality report")

GenerateReportInsertResponse(outcome) ==
    /\ pc["generateReport"] = "final_reports.insert"
    /\ IF outcome = "ok"
       THEN LET u == ctx["generateReport"].user
                report == Report(u.id) IN
            /\ currentReport' = report
            /\ error' = HandleAsyncErrorBegin.error
            /\ IF StartsWithTemp(u.id)
               THEN LET updatedUser == Spread(u, [profile_completed |-> TRUE]) IN
                    /\ lsUser' = JsonStringify(updatedUser)
                    /\ user' = updatedUser
                    /\ Finish("generateReport", report)
                    /\ inflight' = Settle(inflight, "generateReport")
                    /\ sinceSignOut' = FALSE
               ELSE /\ Suspend("generateReport", "users.update", ctx["generateReport"])
                    /\ inflight' = Issue(Settle(inflight, "generateReport"), "generateReport")
                    /\ UNCHANGED <<user, lsUser, sinceSignOut>>
            /\ UNCHANGED <<lsReports, nextId, fallbackIds>>
       ELSE GenerateReportThrows("Failed to generate personality report")

GenerateReportUpdateResponse(outcome) ==
    /\ pc["generateReport"] = "users.update"
    /\ inflight' = Settle(inflight, "generateReport")
    /\ Finish("generateReport", Report(ctx["generateReport"].user.id))
    /\ IF outcome = "ok"
       THEN /\ user' = Spread(ctx["generateReport"].user, [profile_completed |-> TRUE])
            /\ sinceSignOut' = FALSE
            /\ UNCHANGED error
       ELSE /\ error' = HandleAsyncErrorCatch("Failed to update user profile").error
            /\ UNCHANGED <<user, sinceSignOut>>
    /\ UNCHANGED <<currentReport, lsUser, lsReports, nextId, fallbackIds>>

---------------------------------------------------------------------------
\* downloadPDF (generatePDF)

DownloadPDFStart ==
    /\ CanStart("downloadPDF")
    /\ error' = HandleAsyncErrorBegin.error
    /\ Suspend("downloadPDF", "final_reports.select", NULL)
    /\ inflight' = Issue(inflight, "downloadPDF")
    /\ UNCHANGED <<user, currentReport, lsUser, lsReports, nextId, fallbackIds, sinceSignOut>>

DownloadPDFSelectResponse(outcome) ==
    /\ pc["downloadPDF"] = "final_reports.select"
    /\ IF outcome = "ok"
       THEN /\ Suspend("downloadPDF", "final_reports.update", NULL)
            /\ inflight' = Issue(Settle(inflight, "downloadPDF"), "downloadPDF")
            /\ UNCHANGED error
       ELSE /\ error' = HandleAsyncErrorCatch("Failed to generate PDF").error
            /\ Finish("downloadPDF", HandleAsyncErrorCatch("Failed to generate PDF").result)
            /\ inflight' = Settle(inflight, "downloadPDF")
    /\ UNCHANGED <<user, currentReport, lsUser, lsReports, nextId, fallbackIds, sinceSignOut>>

\* An update error is only logged; a rejected request reaches handleAsyncError
DownloadPDFUpdateResponse(outcome) ==
    /\ pc["downloadPDF"] = "final_reports.update"
    /\ inflight' = Settle(inflight, "downloadPDF")
    /\ IF outcome \in {"ok", "update_error"}
       THEN /\ Finish("downloadPDF", [kind |-> "url", of |-> "blob"])
            /\ UNCHANGED error
       ELSE /\ error' = HandleAsyncErrorCatch("Failed to generate PDF").error
            /\ Finish("downloadPDF", HandleAsyncErrorCatch("Failed to generate PDF").result)
    /\ UNCHANGED <<user, currentReport, lsUser, lsReports, nextId, fallbackIds, sinceSignOut>>

---------------------------------------------------------------------------
\* shareReport

ShareReportStart ==
    /\ CanStart("shareReport")
    /\ error' = HandleAsyncErrorBegin.error
    /\ IF user # NULL /\ StartsWithTemp(user.id)
       THEN /\ Finish("shareReport", [kind |-> "url", of |-> "demo"])
            /\ UNCHANGED inflight
       ELSE /\ Suspend("shareReport", "final_reports.update", [user |-> user])
            /\ inflight' = Issue(inflight, "shareReport")
    /\ UNCHANGED <<user, currentReport, lsUser, lsReports, nextId, fallbackIds, sinceSignOut>>

ShareReportResponse(outcome) ==
    /\ pc["shareReport"] = "final_reports.update"
    /\ inflight' = Settle(inflight, "shareReport")
    /\ IF outcome = "ok"
       THEN /\ Finish("shareReport", [kind |-> "url", of |-> "share_token"])
            /\ UNCHANGED error
       ELSE /\ error' = HandleAsyncErrorCatch("Failed to share report").error
            /\ Finish("shareReport",
                      HandleAsyncErrorCatch("Failed to share report").result)
    /\ UNCHANGED <<user, currentReport, lsUser, lsReports, nextId, fallbackIds, sinceSignOut>>

---------------------------------------------------------------------------
\* getUserReports

GetUserReportsNoUser ==
    /\ pc["getUserReports"] = "idle"
    /\ user = NULL
    /\ ret' = Returned("getUserReports", NULL, "none")
    /\ UNCHANGED <<user, error, currentReport, lsUser, lsReports, pc, ctx,
                   inflight, nextId, fallbackIds, sinceSignOut>>

GetUserReportsStart ==
    /\ CanStart("getUserReports")
    /\ user # NULL
    /\ IF StartsWithTemp(user.id)
       THEN /\ UNCHANGED inflight
            /\ IF lsReports = NULL
               THEN /\ Finish("getUserReports", [kind |-> "reports", rows |-> <<>>])
                    /\ error' = HandleAsyncErrorBegin.error
               ELSE IF JsonParses(lsReports)
               THEN /\ Finish("getUserReports",
                              [kind |-> "reports", rows |-> JsonParse(lsReports)])
                    /\ error' = HandleAsyncErrorBegin.error
               ELSE /\ Finish("getUserReports",
                              HandleAsyncErrorCatch("Failed to fetch user reports").result)
                    /\ error' = HandleAsyncErrorCatch("Failed to fetch user reports").error
       ELSE /\ Suspend("getUserReports", "final_reports.select", [user |-> user])
            /\ inflight' = Issue(inflight, "getUserReports")
            /\ error' = HandleAsyncErrorBegin.error
    /\ UNCHANGED <<user, currentReport, lsUser, lsReports, nextId, fallbackIds, sinceSignOut>>

GetUserReportsResponse(outcome) ==
    /\ pc["getUserReports"] = "final_reports.select"
    /\ inflight' = Settle(inflight, "getUserReports")
    /\ IF outcome = "ok"
       THEN /\ Finish("getUserReports", [kind |-> "reports", rows |-> <<"row">>])
            /\ UNCHANGED error
       ELSE /\ error' = HandleAsyncErrorCatch("Failed to fetch user reports").error
            /\ Finish("getUserReports", HandleAsyncErrorCatch("Failed to fetch user reports").result)
    /\ UNCHANGED <<user, currentReport, lsUser, lsReports, nextId, fallbackIds, sinceSignOut>>

---------------------------------------------------------------------------
\* signOut

SignOutStart ==
    /\ CanStart("signOut")
    /\ Suspend("signOut", "auth.signOut", NULL)
    /\ inflight' = Issue(inflight, "signOut")
    /\ UNCHANGED <<user, error, currentReport, lsUser, lsReports, nextId, fallbackIds, sinceSignOut>>

RemoveItemSkipped(stored) == stored
\* localStorage.removeItem(key)
RemoveItem(stored) == NULL

\* auth.signOut() resolves (with or without an error in its result) or rejects
SignOutResponse(outcome) ==
    /\ pc["signOut"] = "auth.signOut"
    /\ inflight' = Settle(inflight, "signOut")
    /\ IF outcome \in {"ok", "error_result"}
       THEN LET after == RestoreEffect(ResetStore.user, RemoveItem(lsUser)) IN
            /\ lsUser' = after.ls
            /\ lsReports' = RemoveItem(lsReports)
            /\ user' = after.user
            /\ error' = ResetStore.error
            /\ currentReport' = ResetStore.currentReport
            /\ Finish("signOut", [kind |-> "undefined"])
            /\ sinceSignOut' = TRUE
       ELSE /\ Finish("signOut", [kind |-> "rejected"])
            /\ UNCHANGED <<user, error, currentReport, lsUser, lsReports,
                           sinceSignOut>>
    /\ UNCHANGED <<nextId, fallbackIds>>

---------------------------------------------------------------------------
\* The other components of the page are not part of the hook's steps
HookFrame == UNCHANGED <<keypadVars, appVars, chartVars>>

HookNext ==
    \/ Mount /\ HookFrame
    \/ \E b \in BirthDatas : CreateUserStart(b) /\ HookFrame
    \/ \E o \in AuthOutcomes : CreateUserAuthResponse(o) /\ HookFrame
    \/ \E o \in InsertOutcomes : CreateUserInsertResponse(o) /\ HookFrame
    \/ \E o \in AstroOutcomes : CreateUserAstroResponse(o) /\ HookFrame
    \/ \E u \in Updates : UpdateUserProfileNoUser(u) /\ HookFrame
    \/ \E u \in Updates : UpdateUserProfileStart(u) /\ HookFrame
    \/ \E o \in UpdateOutcomes : UpdateUserProfileResponse(o) /\ HookFrame
    \/ GenerateReportNoUser /\ HookFrame
    \/ GenerateReportStart /\ HookFrame
    \/ \E o \in {"row", "none", "select_error"} : GenerateReportAstroResponse(o) /\ HookFrame
    \/ \E o \in {"ok", "ai_throws"} : GenerateReportAiResponse(o) /\ HookFrame
    \/ \E o \in {"ok", "insert_error"} : GenerateReportInsertResponse(o) /\ HookFrame
    \/ \E o \in UpdateOutcomes : GenerateReportUpdateResponse(o) /\ HookFrame
    \/ DownloadPDFStart /\ HookFrame
    \/ \E o \in {"ok", "select_error"} : DownloadPDFSelectResponse(o) /\ HookFrame
    \/ \E o \in UpdateOutcomes : DownloadPDFUpdateResponse(o) /\ HookFrame
    \/ ShareReportStart /\ HookFrame
    \/ \E o \in {"ok", "update_error"} : ShareReportResponse(o) /\ HookFrame
    \/ GetUserReportsNoUser /\ HookFrame
    \/ GetUserReportsStart /\ HookFrame
    \/ \E o \in {"ok", "select_error"} : GetUserReportsResponse(o) /\ HookFrame
    \/ SignOutStart /\ HookFrame
    \/ \E o \in {"ok", "error_result", "signout_throws"} : SignOutResponse(o) /\ HookFrame

---------------------------------------------------------------------------
\* Properties of the hook

FailureCauses == (AuthOutcomes \cup InsertOutcomes \cup AstroOutcomes) \ {"ok"}

\* C1: whenever createUser ends after a failure of the sign-in, of the users
\* insert or of the astrology report, it returns a user that is not null and
\* carries the submitted birth data, and that record is the store's user and
\* the content of 'astropsyche_user'.
C1_CreateUserDegrades ==
    [][(pc["createUser"] # "idle" /\ ret'.action = "createUser" /\ ret'.cause \in FailureCauses)
         => /\ ret'.value # NULL
            /\ ret'.value.full_name = ctx["createUser"].birthData.name
            /\ ret'.value.birth_time = ctx["createUser"].birthData.birthTime
            /\ user' = ret'.value
            /\ lsUser' = JsonStringify(ret'.value)]_vars

C1_Witness ==
    /\ ret.action = "createUser"
    /\ ret.cause = "astro_throws"
    /\ user = ret.value
    /\ lsUser = JsonStringify(ret.value)
    /\ ret.value.birth_time = UNDEFINED

\* C2 (as claimed): no backend request of updateUserProfile, shareReport or
\* getUserReports is ever in flight for a user that createUser persisted to
\* local storage as a fallback.
C2_FallbackUsersStayLocal ==
    \A a \in {"updateUserProfile", "shareReport", "getUserReports"} :
        inflight[a] > 0 =>
            (ctx[a].user = NULL \/ ctx[a].user.id \notin fallbackIds)

\* C3 (as claimed): when createUser ends after the anonymous provider was
\* found disabled, or after the users insert failed with 42P01, the store's
\* error is the matching explanatory message.
C3_MessageSurfaced ==
    ret.action = "createUser" =>
        /\ ret.cause = "anonymous_provider_disabled" => error = MsgAnonDisabled
        /\ ret.cause = "42P01" => error = MsgMigrations

\* C4: no hook action ever has more than one backend request in flight.
C4_OneRequestInFlight == \A a \in Actions : inflight[a] <= 1

C4_Witness ==
    \/ pc["createUser"] = "astrology_reports.insert" /\ inflight["createUser"] = 1
    \/ pc["generateReport"] = "users.update" /\ inflight["generateReport"] = 1
    \/ pc["downloadPDF"] = "final_reports.update" /\ inflight["downloadPDF"] = 1

\* C9: a call of updateUserProfile or generateReport made while the store has
\* no user sets the error 'No user logged in', returns null, issues no backend
\* request and changes neither the user, the current report nor local storage.
C9_NoUserLoggedIn ==
    [][\A a \in {"updateUserProfile", "generateReport"} :
         (user = NULL /\ pc[a] = "idle" /\ ret'.action = a)
           => /\ error' = MsgNoUser
              /\ ret'.value = NULL
              /\ inflight' = inflight
              /\ pc' = pc
              /\ user' = user
              /\ currentReport' = currentReport
              /\ lsUser' = lsUser
              /\ lsReports' = lsReports]_vars

C9_Witness ==
    /\ ret.action \in {"updateUserProfile", "generateReport"}
    /\ ret.value = NULL
    /\ error = MsgNoUser
    /\ user = NULL
    /\ lsReports # NULL

---------------------------------------------------------------------------
\* ThemedTimePicker: the calculator-style keypad

\* The keys pressed in the model: a sample of the keypad's ten digit keys that
\* holds hours on both sides of 23 and minutes on both sides of 59
KeypadDigits == {"0", "2", "4", "6"}
DigitChars == {"0", "1", "2", "3", "4", "5", "6", "7", "8", "9"}
EmptyString == <<>>
NoCall == <<"no call">>

DigitValue(c) ==
    CASE c = "0" -> 0 [] c = "1" -> 1 [] c = "2" -> 2 [] c = "3" -> 3 [] c = "4" -> 4
      [] c = "5" -> 5 [] c = "6" -> 6 [] c = "7" -> 7 [] c = "8" -> 8 [] c = "9" -> 9

\* parseInt: the number written by the leading digits, NaN when there is none
RECURSIVE LeadingDigits(_)
LeadingDigits(str) ==
    IF str = EmptyString \/ Head(str) \notin DigitChars
    THEN EmptyString
    ELSE <<Head(str)>> \o LeadingDigits(Tail(str))

RECURSIVE Decimal(_)
Decimal(digits) ==
    IF digits = EmptyString
    THEN 0
    ELSE Decimal(SubSeq(digits, 1, Len(digits) - 1)) * 10 + DigitValue(digits[Len(digits)])

ParseInt(str) ==
    IF LeadingDigits(str) = EmptyString
    THEN [nan |-> TRUE, n |-> 0]
    ELSE [nan |-> FALSE, n |-> Decimal(LeadingDigits(str))]

\* Comparisons with NaN are false
Geq(x, k) == ~x.nan /\ x.n >= k
Leq(x, k) == ~x.nan /\ x.n <= k

\* str.slice(from, to) with 0 <= from <= to
Slice(str, from, to) ==
    SubSeq(str, from + 1, IF to < Len(str) THEN to ELSE Len(str))

\* prev.slice(0, -1)
DropLast(str) == IF str = EmptyString THEN EmptyString ELSE SubSeq(str, 1, Len(str) - 1)

\* if (h >= 0 && h <= 23 && m >= 0 && m <= 59)
TimeAcceptedUpTo24(h, m) == Geq(h, 0) /\ Leq(h, 24) /\ Geq(m, 0) /\ Leq(m, 59)
TimeAccepted(h, m) == Geq(h, 0) /\ Leq(h, 23) /\ Geq(m, 0) /\ Leq(m, 59)

\* `${hours}:${minutes}`
FormattedTime(hours, minutes) == hours \o <<":">> \o minutes

\* useEffect(() => { if (value) setTimeInput(value) }, [value]): runs on mount
\* and after a render in which value changed
ValueEffect(oldValue, newValue, input) ==
    IF newValue # oldValue /\ newValue # EmptyString THEN newValue ELSE input

KeypadInit ==
    /\ timeInput = EmptyString
    /\ value = EmptyString
    /\ isOpen = FALSE
    /\ onChangeArg = NoCall

OpenPicker ==
    /\ ~isOpen
    /\ isOpen' = TRUE
    /\ onChangeArg' = NoCall
    /\ UNCHANGED <<timeInput, value>>

\* The X button and the backdrop
ClosePicker ==
    /\ isOpen
    /\ isOpen' = FALSE
    /\ onChangeArg' = NoCall
    /\ UNCHANGED <<timeInput, value>>

\* handleNumberClick(num); the parent either stores what onChange hands it
\* (and the value effect runs on the next render) or leaves its value alone
HandleNumberClick(num, parentStores) ==
    /\ isOpen
    /\ UNCHANGED isOpen
    /\ IF Len(timeInput) < 4
       THEN LET newInput == timeInput \o <<num>>
                hours == Slice(newInput, 0, 2)
                minutes == Slice(newInput, 2, 4)
                h == ParseInt(hours)
                m == ParseInt(minutes)
                called == Len(newInput) = 4 /\ TimeAccepted(h, m)
                newValue == IF called /\ parentStores
                            THEN FormattedTime(hours, minutes) ELSE value IN
            /\ onChangeArg' = IF called THEN FormattedTime(hours, minutes) ELSE NoCall
            /\ value' = newValue
            /\ timeInput' = ValueEffect(value, newValue, newInput)
       ELSE /\ onChangeArg' = NoCall
            /\ UNCHANGED <<timeInput, value>>

HandleClear ==
    /\ isOpen
    /\ timeInput' = EmptyString
    /\ onChangeArg' = NoCall
    /\ UNCHANGED <<value, isOpen>>

HandleBackspace ==
    /\ isOpen
    /\ timeInput' = DropLast(timeInput)
    /\ onChangeArg' = NoCall
    /\ UNCHANGED <<value, isOpen>>

Cancel ==
    /\ isOpen
    /\ timeInput' = EmptyString
    /\ isOpen' = FALSE
    /\ onChangeArg' = NoCall
    /\ UNCHANGED value

\* disabled={timeInput.length !== 4}
DoneEnabled == Len(timeInput) = 4

Done ==
    /\ isOpen
    /\ DoneEnabled
    /\ isOpen' = FALSE
    /\ onChangeArg' = NoCall
    /\ UNCHANGED <<timeInput, value>>

\* The parent clears its value (a falsy value leaves the buffer alone)
ParentClearsValue ==
    /\ value # EmptyString
    /\ value' = EmptyString
    /\ timeInput' = ValueEffect(value, EmptyString, timeInput)
    /\ onChangeArg' = NoCall
    /\ UNCHANGED isOpen

KeypadFrame == UNCHANGED <<hookVars, appVars, chartVars>>

KeypadNext ==
    \/ OpenPicker /\ KeypadFrame
    \/ ClosePicker /\ KeypadFrame
    \/ \E num \in KeypadDigits, parentStores \in BOOLEAN : HandleNumberClick(num, parentStores) /\ KeypadFrame
    \/ HandleClear /\ KeypadFrame
    \/ HandleBackspace /\ KeypadFrame
    \/ Cancel /\ KeypadFrame
    \/ Done /\ KeypadFrame
    \/ ParentClearsValue /\ KeypadFrame

---------------------------------------------------------------------------
\* Properties of the keypad

IsDigits(str) == \A i \in 1..Len(str) : str[i] \in DigitChars

\* HH:MM with HH in 00..23 and MM in 00..59
IsTimeOfDay(str) ==
    /\ Len(str) = 5
    /\ str[3] = ":"
    /\ IsDigits(SubSeq(str, 1, 2)) /\ Decimal(SubSeq(str, 1, 2)) \in 0..23
    /\ IsDigits(SubSeq(str, 4, 5)) /\ Decimal(SubSeq(str, 4, 5)) \in 0..59

\* Four digits that do not write a time of day
IsRejectedEntry(str) ==
    /\ Len(str) = 4
    /\ IsDigits(str)
    /\ ~(Decimal(SubSeq(str, 1, 2)) \in 0..23 /\ Decimal(SubSeq(str, 3, 4)) \in 0..59)

\* C5: every call of onChange carries a string HH:MM with HH in 00..23 and MM
\* in 00..59, and a key press that completes a four-digit entry outside these
\* ranges calls onChange not at all and leaves the value as it was.
C5_OnlyValidTimes ==
    [][/\ onChangeArg' # NoCall => IsTimeOfDay(onChangeArg')
       /\ (Len(timeInput) = 3 /\ IsRejectedEntry(timeInput'))
            => (onChangeArg' = NoCall /\ value' = value)]_vars

\* A valid time was reported after an earlier one had been fed back and edited
C5_Witness ==
    /\ onChangeArg # NoCall
    /\ IsTimeOfDay(onChangeArg)
    /\ Decimal(SubSeq(onChangeArg, 1, 2)) = 22
    /\ value # onChangeArg
    /\ value # EmptyString

C5_WitnessRejected ==
    /\ IsRejectedEntry(timeInput)
    /\ onChangeArg = NoCall
    /\ value # EmptyString

\* C6 (as claimed): the entry buffer never holds more than four characters
\* nor anything but digits, and Done is enabled exactly when it holds four
\* digits.
C6_FourDigitBuffer ==
    /\ Len(timeInput) <= 4
    /\ IsDigits(timeInput)
    /\ DoneEnabled <=> (Len(timeInput) = 4 /\ IsDigits(timeInput))

---------------------------------------------------------------------------
\* App: the wizard pages, and the camera target of ThreeBackground

PlanetSequenceOneBased == <<-1, 1, 2, 3, 4, 5, 1, 2, 3>>
\* planetSequence
PlanetSequence == <<-1, 0, 1, 2, 3, 4, 0, 1, 2>>

\* planets, in the order the scene creates them
Planets == <<"Venus", "Earth", "Mars", "Jupiter", "Saturn">>

\* array[i]: undefined outside the array
At(array, i) ==
    IF i \in 0..(Len(array) - 1)
    THEN [undefined |-> FALSE, v |-> array[i + 1]]
    ELSE [undefined |-> TRUE]

\* x ?? fallback
NullishOr(x, fallback) == IF x.undefined THEN fallback ELSE x.v

\* The index the camera effect looks up for (appStep, formStep)
LookupIndexOffByOne(a, f) ==
    IF a = 1 THEN 1 + f ELSE IF a > 1 THEN 5 + a ELSE a
LookupIndex(a, f) ==
    IF a = 1 THEN 1 + f ELSE IF a > 1 THEN 5 + a - 1 ELSE a

\* The camera effect, run after every render in which appStep or formStep changed
CameraTarget(a, f) == NullishOr(At(PlanetSequence, LookupIndex(a, f)), -1)

\* new Date(): the day the model runs on (getFullYear, getMonth, getDate)
Today == [year |-> 2024, month |-> 5, date |-> 15]

NoDate == [year |-> 0, month |-> 0, date |-> 0]
BirthDates == {[year |-> 1990, month |-> 5, date |-> 16],
               [year |-> 2000, month |-> 11, date |-> 31]}

\* calculateAge(dob), run on the day today
CalculateAgeOn(today, dob) ==
    IF dob = NoDate
    THEN NULL
    ELSE LET years == today.year - dob.year
             months == today.month - dob.month IN
         IF months < 0 \/ (months = 0 /\ today.date < dob.date)
         THEN [years |-> years - 1, months |-> months + 12]
         ELSE [years |-> years, months |-> months]

\* calculateAge(dob)
CalculateAge(dob) == CalculateAgeOn(Today, dob)

\* useState of BirthDataPage
EmptyForm ==
    [name |-> "", gender |-> "", dob |-> NoDate, age |-> NULL, time |-> "",
     location |-> NULL, locationInput |-> ""]

\* No timer callback ran in the step just taken
NoEvent == "none"

\* The age-screen effect of BirthDataPage, keyed on its formStep prop: the
\* cleanup clears the timer when the prop changes, and a prop of 3 arms one
AutoAdvanceEffect(oldProp, newProp, pending) ==
    IF newProp = oldProp THEN pending ELSE newProp = 3

\* The formStep prop BirthDataPage renders with after App's state became (a, f):
\* the page follows App while it is pages[appStep]; once another page has
\* taken its place it stays mounted, for its exit animation, as the element of
\* its last render
FormStepProp(a, f) == IF mountedPage = 1 /\ a = 1 THEN f ELSE pageFormStep

\* What every render of App settles: ThreeBackground and the page mounted
\* under AnimatePresence render, and their effects on the two steps run
Rendered(a, f) ==
    /\ appStep' = a
    /\ formStep' = f
    /\ targetIndex' = CameraTarget(a, f)
    /\ pageFormStep' = FormStepProp(a, f)

\* A render after a handler other than the age timer's callback
RenderedByUser(a, f) ==
    /\ Rendered(a, f)
    /\ ageTimer' = AutoAdvanceEffect(pageFormStep, FormStepProp(a, f), ageTimer)

\* useState of a page that mounts
PageMounted ==
    /\ formData' = EmptyForm
    /\ loading' = FALSE
    /\ answer' = ""
    /\ isRecording' = FALSE

AppInit ==
    /\ appStep = 0
    /\ formStep = 0
    /\ mountedPage = 0
    /\ pageFormStep = 0
    /\ mountedScreen = 0
    /\ overlap = 0
    /\ formData = EmptyForm
    /\ loading = FALSE
    /\ submitTimers = 0
    /\ ageTimer = FALSE
    /\ answer = ""
    /\ isRecording = FALSE
    /\ targetIndex = CameraTarget(0, 0)
    /\ event = NoEvent

\* AnimatePresence mode="wait", around pages[appStep]: the exit animation of
\* the page that was replaced ends, the page unmounts and pages[appStep] mounts
PageExitComplete ==
    /\ mountedPage # appStep
    /\ mountedPage' = appStep
    /\ PageMounted
    /\ pageFormStep' = IF appStep = 1 THEN formStep ELSE 0
    /\ mountedScreen' = IF appStep = 1 THEN formStep ELSE 0
    /\ ageTimer' = (appStep = 1 /\ formStep = 3)
    /\ overlap' = 0
    /\ event' = NoEvent
    /\ UNCHANGED <<appStep, formStep, submitTimers, targetIndex>>

\* AnimatePresence mode="wait", around steps[formStep]: the exit animation of
\* the screen that was replaced ends and steps[formStep] mounts
ScreenExitComplete ==
    /\ mountedPage = 1
    /\ ~loading
    /\ mountedScreen # pageFormStep
    /\ mountedScreen' = pageFormStep
    /\ overlap' = 0
    /\ event' = NoEvent
    /\ UNCHANGED <<appStep, formStep, mountedPage, pageFormStep, formData, loading,
                   submitTimers, ageTimer, answer, isRecording, targetIndex>>

\* pages[appStep] is the page mounted, and (for k) it renders form step k
PageLive == mountedPage = appStep
ScreenLive(k) == PageLive /\ pageFormStep = k

\* A click or key press runs a handler: of what the wizard shows (live), or of
\* a page or screen that is still leaving
UserEvent(live) ==
    /\ live \/ overlap < MaxEventsWhileLeaving
    /\ overlap' = IF live THEN overlap ELSE overlap + 1
    /\ event' = NoEvent

\* A timer callback runs
TimerEvent(name) ==
    /\ event' = name
    /\ UNCHANGED overlap

\* nextAppStep
NextAppStep ==
    /\ RenderedByUser(appStep + 1, 0)
    /\ UNCHANGED <<mountedPage, mountedScreen, formData, loading, answer, isRecording>>

\* restart
Restart ==
    /\ RenderedByUser(0, 0)
    /\ UNCHANGED <<mountedPage, mountedScreen, formData, loading, answer, isRecording>>

\* nextFormStep
NextFormStep ==
    /\ RenderedByUser(appStep, formStep + 1)
    /\ UNCHANGED <<mountedPage, mountedScreen, loading, submitTimers, answer, isRecording>>

\* The button of form screen k can be clicked: the screen is mounted (shown,
\* or still leaving) and the page shows its screens
ScreenMounted(k) == mountedPage = 1 /\ ~loading /\ mountedScreen = k

\* The key handler of BirthDataPage sees form step k
KeyHandlerAt(k) == mountedPage = 1 /\ pageFormStep = k

\* LandingPage: the button, or Enter
LandingNext ==
    /\ mountedPage = 0
    /\ NextAppStep
    /\ UserEvent(PageLive)
    /\ UNCHANGED submitTimers

\* handleInputChange on the input of the screen shown
HandleInputChange(field, text) ==
    /\ PageLive /\ mountedScreen = pageFormStep
    /\ \/ field = "name" /\ ScreenMounted(0)
       \/ field = "dob" /\ ScreenMounted(2)
       \/ field = "time" /\ ScreenMounted(4)
       \/ field = "locationInput" /\ ScreenMounted(5)
    /\ formData' = [formData EXCEPT ![field] = text]
    /\ UserEvent(PageLive)
    /\ UNCHANGED <<appStep, formStep, mountedPage, pageFormStep, mountedScreen, loading,
                   submitTimers, ageTimer, answer, isRecording, targetIndex>>

\* Screen 0: Continue (disabled without a name), or Enter with a name
ContinueName ==
    /\ ScreenMounted(0) \/ KeyHandlerAt(0)
    /\ formData.name # ""
    /\ NextFormStep
    /\ UserEvent(ScreenLive(0))
    /\ UNCHANGED formData

\* Screen 1: one of the three buttons
SelectGender(g) ==
    /\ ScreenMounted(1)
    /\ formData' = [formData EXCEPT !.gender = g]
    /\ NextFormStep
    /\ UserEvent(ScreenLive(1))

\* Screen 2: handleDobSubmit (button disabled without a date), or Enter with a date
HandleDobSubmit ==
    /\ ScreenMounted(2) \/ KeyHandlerAt(2)
    /\ formData.dob # NoDate
    /\ formData' = [formData EXCEPT !.age = CalculateAge(formData.dob)]
    /\ NextFormStep
    /\ UserEvent(ScreenLive(2))

\* Screen 3: the 2500 ms timer fires
AgeTimerFires ==
    /\ ageTimer
    /\ loading \/ mountedScreen = pageFormStep   \* the timer outlasts a screen's 0.5 s exit
    /\ Rendered(appStep, formStep + 1)
    /\ ageTimer' = AutoAdvanceEffect(pageFormStep, FormStepProp(appStep, formStep + 1), FALSE)
    /\ TimerEvent("ageTimer")
    /\ UNCHANGED <<mountedPage, mountedScreen, formData, loading, submitTimers, answer,
                   isRecording>>

\* Screen 4: Next (disabled without a time), or Enter with a time
ContinueTime ==
    /\ ScreenMounted(4) \/ KeyHandlerAt(4)
    /\ formData.time # ""
    /\ NextFormStep
    /\ UserEvent(ScreenLive(4))
    /\ UNCHANGED formData

\* Screen 5: handleLocationSelect (button disabled without text), or Enter with text
HandleLocationSelect ==
    /\ ScreenMounted(5) \/ KeyHandlerAt(5)
    /\ formData.locationInput # ""
    /\ formData' = [formData EXCEPT
                      !.location = [name |-> formData.locationInput, lat |-> "48.8584",
                                    lon |-> "2.2945"]]
    /\ NextFormStep
    /\ UserEvent(ScreenLive(5))

\* Screen 6: handleSubmit, by the button or by Enter (Enter also while loading)
HandleSubmit ==
    /\ ScreenMounted(6) \/ KeyHandlerAt(6)
    /\ submitTimers < MaxPendingSubmits
    /\ loading' = TRUE
    /\ submitTimers' = submitTimers + 1
    /\ UserEvent(ScreenLive(6))
    /\ UNCHANGED <<appStep, formStep, mountedPage, pageFormStep, mountedScreen, formData,
                   ageTimer, answer, isRecording, targetIndex>>

\* A 3000 ms timer of handleSubmit fires: onNext()
SubmitTimerFires ==
    /\ submitTimers > 0
    /\ submitTimers' = submitTimers - 1
    /\ NextAppStep
    /\ TimerEvent("submitTimer")

\* Backspace outside an input, on any screen but the first
Backspace ==
    /\ mountedPage = 1
    /\ pageFormStep > 0
    /\ RenderedByUser(appStep, formStep - 1)
    /\ UserEvent(PageLive)
    /\ UNCHANGED <<mountedPage, mountedScreen, formData, loading, submitTimers, answer,
                   isRecording>>

\* ReportPreviewPage: the button, or Enter
ReportPreviewNext ==
    /\ mountedPage = 2
    /\ NextAppStep
    /\ UserEvent(PageLive)
    /\ UNCHANGED submitTimers

\* PsychQAPage: typing, and the microphone button
SetAnswer(text) ==
    /\ mountedPage = 3
    /\ answer' = text
    /\ UserEvent(PageLive)
    /\ UNCHANGED <<appStep, formStep, mountedPage, pageFormStep, mountedScreen, formData,
                   loading, submitTimers, ageTimer, isRecording, targetIndex>>

ToggleRecording ==
    /\ mountedPage = 3
    /\ isRecording' = ~isRecording
    /\ UserEvent(PageLive)
    /\ UNCHANGED <<appStep, formStep, mountedPage, pageFormStep, mountedScreen, formData,
                   loading, submitTimers, ageTimer, answer, targetIndex>>

\* PsychQAPage: the button, or Enter: the next question, or onNext
PsychQANext ==
    /\ mountedPage = 3
    /\ IF answer # "" \/ isRecording
       THEN /\ answer' = ""
            /\ UNCHANGED <<appStep, formStep, mountedPage, pageFormStep, mountedScreen,
                           formData, loading, ageTimer, isRecording, targetIndex>>
       ELSE NextAppStep
    /\ UserEvent(PageLive)
    /\ UNCHANGED submitTimers

\* FinalReportPage: Start Over, or the r key
FinalRestart ==
    /\ mountedPage = 4
    /\ Restart
    /\ UserEvent(PageLive)
    /\ UNCHANGED submitTimers

AppFrame == UNCHANGED <<hookVars, keypadVars, chartVars>>

AppNext ==
    \/ LandingNext /\ AppFrame
    \/ \E text \in {"", "Ann"} : HandleInputChange("name", text) /\ AppFrame
    \/ \E d \in BirthDates \cup {NoDate} : HandleInputChange("dob", d) /\ AppFrame
    \/ \E text \in {"", "06:30"} : HandleInputChange("time", text) /\ AppFrame
    \/ \E text \in {"", "Paris"} : HandleInputChange("locationInput", text) /\ AppFrame
    \/ ContinueName /\ AppFrame
    \/ \E g \in {"Other"} : SelectGender(g) /\ AppFrame
    \/ HandleDobSubmit /\ AppFrame
    \/ AgeTimerFires /\ AppFrame
    \/ ContinueTime /\ AppFrame
    \/ HandleLocationSelect /\ AppFrame
    \/ HandleSubmit /\ AppFrame
    \/ SubmitTimerFires /\ AppFrame
    \/ Backspace /\ AppFrame
    \/ ReportPreviewNext /\ AppFrame
    \/ \E text \in {"", "proud"} : SetAnswer(text) /\ AppFrame
    \/ ToggleRecording /\ AppFrame
    \/ PsychQANext /\ AppFrame
    \/ FinalRestart /\ AppFrame
    \/ PageExitComplete /\ AppFrame
    \/ ScreenExitComplete /\ AppFrame

---------------------------------------------------------------------------
\* Properties of the camera target

\* C7: the camera target is -1 or a planet index 0..4 for every pair of steps
\* the wizard reaches, and it is -1 whenever the looked-up index lies outside
\* the nine-entry sequence.
C7_TargetInRange ==
    /\ targetIndex \in {-1} \cup (0..(Len(Planets) - 1))
    /\ LookupIndex(appStep, formStep) \notin 0..8 => targetIndex = -1

C7_Witness ==
    /\ appStep > 4
    /\ LookupIndex(appStep, formStep) \notin 0..8
    /\ targetIndex = -1

\* The planet the camera targets, "wide" for the default view
TargetName == IF targetIndex = -1 THEN "wide" ELSE Planets[targetIndex + 1]

\* C8: the landing page targets the wide view, form step k of the birth-data
\* page targets planet k (Venus, Earth, Mars, Jupiter, Saturn) for k = 0..4,
\* the report preview targets Venus, the Q&A Earth and the final report Mars.
C8_DocumentedSequence ==
    /\ appStep = 0 => targetIndex = -1
    /\ (appStep = 1 /\ formStep \in 0..4) =>
           (targetIndex = formStep /\ TargetName = Planets[formStep + 1])
    /\ appStep = 2 => (targetIndex = 0 /\ TargetName = "Venus")
    /\ appStep = 3 => (targetIndex = 1 /\ TargetName = "Earth")
    /\ appStep = 4 => (targetIndex = 2 /\ TargetName = "Mars")

C8_Witness ==
    /\ appStep = 4
    /\ TargetName = "Mars"
    /\ submitTimers > 0

---------------------------------------------------------------------------
\* Properties of the wizard's steps

\* C13 (as claimed): appStep stays in 0..4, so one of the five pages is
\* always rendered.
C13_AppStepInRange == appStep \in 0..4

\* C14 (as claimed): while the birth-data page is shown, formStep stays in
\* 0..6, so one of the seven form screens is always rendered.
C14_FormStepInRange ==
    (appStep = 1 /\ mountedPage = 1) => formStep \in 0..6

\* C15 (as claimed): on the birth-data page every form step that has been
\* passed has its field set, so at form step 6 name, gender, date of birth,
\* time and location are all set, and from the age screen on the stored age
\* is the age computed from the current date of birth.
C15_CompleteBirthData ==
    (appStep = 1 /\ mountedPage = 1) =>
        /\ formStep > 0 => formData.name # ""
        /\ formStep > 1 => formData.gender # ""
        /\ formStep > 2 => (formData.dob # NoDate /\ formData.age = CalculateAge(formData.dob))
        /\ formStep > 4 => formData.time # ""
        /\ formStep > 5 => formData.location # NULL

\* C16 (as claimed): on every page other than the birth-data form, formStep
\* is 0.
C16_FormStepZeroOffForm == appStep # 1 => formStep = 0

\* C17 (as claimed): the callback of the age screen's timer runs only at form
\* step 3, which it advances to 4; a timer whose step was left never fires.
C17_OnlyAgeScreenAdvances ==
    [][event' = "ageTimer" => (appStep = 1 /\ formStep = 3 /\ formStep' = 4)]_vars

---------------------------------------------------------------------------
\* calculateAge, generateAstrologyReport's age and calculateAstrologyChart,
\* applied to one birth date

\* The calendar: months are 0..11 as getMonth() returns them
IsLeap(year) == (year % 4 = 0 /\ year % 100 # 0) \/ year % 400 = 0

DaysInMonth(year, month) ==
    IF month = 1 THEN (IF IsLeap(year) THEN 29 ELSE 28)
    ELSE IF month \in {3, 5, 8, 10} THEN 30 ELSE 31

RECURSIVE DaysBeforeMonth(_, _)
DaysBeforeMonth(year, month) ==
    IF month = 0 THEN 0
    ELSE DaysBeforeMonth(year, month - 1) + DaysInMonth(year, month - 1)

\* d1 is not later than d2
NotLater(d1, d2) ==
    \/ d1.year < d2.year
    \/ d1.year = d2.year /\ d1.month < d2.month
    \/ d1.year = d2.year /\ d1.month = d2.month /\ d1.date <= d2.date

\* The dates of birth and the days of running the model draws from
BirthYears == {2023, 2024}
CalendarDates ==
    {[year |-> y, month |-> m, date |-> d] :
        y \in BirthYears, m \in 0..11, d \in 1..31}
ValidDates == {d \in CalendarDates : d.date <= DaysInMonth(d.year, d.month)}
RunDays == {[year |-> 2024, month |-> 2, date |-> 1],
            [year |-> 2024, month |-> 5, date |-> 15],
            [year |-> 2024, month |-> 11, date |-> 31]}

\* Not computed yet
Pending == [kind |-> "pending"]

\* Math.floor(a / b) for b > 0, and the remainder a % b of JavaScript, which
\* has the sign of a
MathFloorDiv(a, b) == IF a >= 0 THEN a \div b ELSE -(((-a) + b - 1) \div b)
JsRemainder(a, b) == IF a >= 0 THEN a % b ELSE -((-a) % b)

\* generateAstrologyReport: ageYears, ageMonths
ReportAge(today, born) ==
    LET ageYears == today.year - born.year
        ageMonths == today.month - born.month IN
    IF ageMonths < 0 \/ (ageMonths = 0 /\ today.date < born.date)
    THEN [years |-> ageYears - 1, months |-> ageMonths + 12]
    ELSE [years |-> ageYears, months |-> ageMonths]

\* signs
Signs == <<"Aries", "Taurus", "Gemini", "Cancer", "Leo", "Virgo",
           "Libra", "Scorpio", "Sagittarius", "Capricorn", "Aquarius", "Pisces">>

\* planets
ChartPlanets == <<"Mercury", "Venus", "Mars", "Jupiter", "Saturn", "Uranus",
                  "Neptune", "Pluto">>

\* signs[i]: undefined outside the array
SignAt(i) == IF i \in 0..(Len(Signs) - 1) THEN Signs[i + 1] ELSE UNDEFINED

\* dayOfYear: whole days from the last day of the previous year to the birth date
DayOfYear(born) == DaysBeforeMonth(born.year, born.month) + born.date

\* Math.floor((dayOfYear - 80) / 30.4) % 12
SunSignIndex(dayOfYear) == JsRemainder(MathFloorDiv(10 * (dayOfYear - 80), 304), 12)

\* (sunSignIndex + Math.floor(dayOfYear / 2.5)) % 12
MoonSignIndex(dayOfYear) ==
    JsRemainder(SunSignIndex(dayOfYear) + MathFloorDiv(2 * dayOfYear, 5), 12)

\* (sunSignIndex + Math.floor(dayOfYear / 15)) % 12
RisingSignIndex(dayOfYear) ==
    JsRemainder(SunSignIndex(dayOfYear) + MathFloorDiv(dayOfYear, 15), 12)

\* Math.random(), in tenths, and Math.floor(Math.random() * 12) + 1
RandomDraws == {0, 9}
RandomHouse(draw) == MathFloorDiv(draw * 12, 10) + 1

\* calculateAstrologyChart(birthData): the fields that hold a sign or come
\* with one (the degrees, aspects, elements and modalities hold no sign)
CalculateAstrologyChart(born, sunDraw, moonDraw) ==
    LET dayOfYear == DayOfYear(born)
        sunSignIndex == SunSignIndex(dayOfYear)
        risingSignIndex == RisingSignIndex(dayOfYear) IN
    [sun |-> [sign |-> SignAt(IF sunSignIndex < 0 THEN sunSignIndex + 12 ELSE sunSignIndex),
              house |-> RandomHouse(sunDraw)],
     moon |-> [sign |-> SignAt(MoonSignIndex(dayOfYear)), house |-> RandomHouse(moonDraw)],
     rising |-> [sign |-> SignAt(risingSignIndex)],
     planets |-> [index \in 0..(Len(ChartPlanets) - 1) |->
                    [name |-> ChartPlanets[index + 1],
                     sign |-> SignAt(JsRemainder(sunSignIndex + index + 1, 12))]],
     houses |-> [i \in 0..11 |->
                    [number |-> i + 1,
                     sign |-> SignAt(JsRemainder(risingSignIndex + i, 12))]]]

\* No date has been looked at
ChartIdle ==
    /\ birthDate = NoDate
    /\ now = Today
    /\ shownAge = Pending
    /\ reportAge = Pending
    /\ chart = Pending

ChartInit ==
    /\ birthDate \in ValidDates
    /\ now \in RunDays
    /\ NotLater(birthDate, now)
    /\ shownAge = Pending
    /\ reportAge = Pending
    /\ chart = Pending

\* handleDobSubmit computes the age the age screen shows
CalculateAgeCall ==
    /\ shownAge = Pending
    /\ shownAge' = CalculateAgeOn(now, birthDate)
    /\ UNCHANGED <<birthDate, now, reportAge, chart>>

\* generateAstrologyReport computes the chart ...
CalculateAstrologyChartCall(sunDraw, moonDraw) ==
    /\ chart = Pending
    /\ chart' = CalculateAstrologyChart(birthDate, sunDraw, moonDraw)
    /\ UNCHANGED <<birthDate, now, shownAge, reportAge>>

\* ... and then the age it stores
GenerateAstrologyReportAge ==
    /\ chart # Pending
    /\ reportAge = Pending
    /\ reportAge' = ReportAge(now, birthDate)
    /\ UNCHANGED <<birthDate, now, shownAge, chart>>

ChartFrame == UNCHANGED <<hookVars, keypadVars, appVars>>

ChartNext ==
    \/ CalculateAgeCall /\ ChartFrame
    \/ \E sunDraw \in RandomDraws, moonDraw \in RandomDraws :
           CalculateAstrologyChartCall(sunDraw, moonDraw) /\ ChartFrame
    \/ GenerateAstrologyReportAge /\ ChartFrame

---------------------------------------------------------------------------
\* Properties of the age and of the chart

\* The calendar age: completed months since birth, split into years and months
CompletedMonths(today, born) ==
    (today.year - born.year) * 12 + (today.month - born.month)
        - (IF today.date < born.date THEN 1 ELSE 0)

CalendarAge(today, born) ==
    [years |-> CompletedMonths(today, born) \div 12,
     months |-> CompletedMonths(today, born) % 12]

\* C11 (as claimed): the age shown and the age stored in the report are the
\* calendar age of the birth date: completed years, not negative, and
\* completed months since the last birthday, in 0..11.
C11_CalendarAge ==
    /\ shownAge # Pending =>
         /\ shownAge = CalendarAge(now, birthDate)
         /\ shownAge.years >= 0
         /\ shownAge.months \in 0..11
    /\ reportAge # Pending =>
         /\ reportAge = CalendarAge(now, birthDate)
         /\ reportAge.years >= 0
         /\ reportAge.months \in 0..11

IsSign(x) == \E i \in 1..Len(Signs) : Signs[i] = x

\* C12 (as claimed): every sign field of the chart - sun, moon, rising, the 8
\* planets and the 12 houses - is one of the twelve zodiac sign names.
C12_EverySignIsASign ==
    chart # Pending =>
        /\ IsSign(chart.sun.sign)
        /\ IsSign(chart.moon.sign)
        /\ IsSign(chart.rising.sign)
        /\ \A index \in 0..7 : IsSign(chart.planets[index].sign)
        /\ \A i \in 0..11 : IsSign(chart.houses[i].sign)

---------------------------------------------------------------------------
\* The hook, from every content of local storage the page can start with
InitHook == HookInit /\ KeypadInit /\ AppInit /\ ChartIdle
SpecHook == InitHook /\ [][HookNext]_vars

\* The time picker and the wizard, on a browser with nothing stored
Init == HookInitWith(NULL, NULL) /\ KeypadInit /\ AppInit /\ ChartIdle
SpecKeypad == Init /\ [][KeypadNext]_vars
SpecApp == Init /\ [][AppNext]_vars

\* The age and the chart of every birth date of two years
InitChart == HookInitWith(NULL, NULL) /\ KeypadInit /\ AppInit /\ ChartInit
SpecChart == InitChart /\ [][ChartNext]_vars
====
